---- MODULE Spec2Model ----
(***************************************************************************)
(* bleve-indexer: the Tika worker supervisor (config.ensureTikaServer,     *)
(* config.killTikaServer), the two main() programs that call it, the HTTP  *)
(* handlers that call it on a copy of the config, and the two-phase        *)
(* extraction (config.analyze).                                            *)
(*                                                                         *)
(* Go semantics the model reproduces:                                      *)
(*  - a method value conf.rootHandler of a value-receiver method copies    *)
(*    conf when it is evaluated, and each call of it passes a fresh copy   *)
(*    of that copy as the receiver: struct fields (also the sync.Mutex)    *)
(*    are copied, a chan and an *os.Process are copied as references;      *)
(*  - a receive on a closed channel succeeds at once, close of a closed    *)
(*    channel and a send on a closed channel panic;                        *)
(*  - cmd.Wait() returns nil when the process exits with status 0.         *)
(***************************************************************************)
EXTENDS Integers, Sequences, FiniteSets, TLC

\* Number of concurrent request goroutines (threads 1..NReq; thread 0 is main).
NReq == 2
\* Total number of calls the callers of the supervisor make in a run.
MaxCalls == 3
\* Total number of HTTP requests served in a run.
MaxReqs == 2
\* Longest document (in bytes) given to analyze.
MaxLen == 2

\* The byte values of a document.
Bytes == {"a", "b"}

Thr == 0..NReq
Req == 1..NReq

\* The programs: part_001's main (register the handler, ensure, kill, serve),
\* part_002's / main.go's main (ensure, register the handlers, serve), and the
\* supervisor used through its pointer receiver by concurrent callers.
Layouts == {"part_001", "part_002", "supervisor"}

VARIABLES
    layout,   \* which program runs
    phase,    \* main's position in its script
    bound,    \* the config copy held by the registered method values
    cfg,      \* heap of config objects: cfg[1] is main's conf, the rest are
              \* the per-request receiver copies
    chans,    \* heap of chan error (capacity 1): buffer and closed flag
    procs,    \* the worker processes launched so far
    pc,       \* per goroutine: position inside ensureTikaServer/killTikaServer
    cfgOf,    \* per goroutine: the config object its receiver points to
    h,        \* per goroutine: what its call in progress saw at entry and did
    res,      \* per goroutine: how its last call returned
    tk,       \* per goroutine: killTikaServer's local `tika`
    kw,       \* per goroutine: killTikaServer's `exited` channel and its waiter
    ncalls,   \* calls started by callers / requests served
    \* analyze:
    input,    \* the bytes of the caller's stream r
    rpos,     \* how many bytes of r have been read
    buf,      \* the bytes.Buffer behind the TeeReader r2
    apc,      \* position of analyze
    tpc,      \* position of the transport goroutine that copies the request
              \* body of the /meta request
    held,     \* per reader of r2: the bytes its Read took from r and has not
              \* yet written to buf
    metaBody, \* the bytes sent to the worker as the body of PUT /meta
    textBody, \* the body of PUT /tika
    textSent, \* the /tika request has been made
    ares,     \* the error analyze returned
    err,      \* analyze's local variable err
    seen,     \* what went wrong in this call of analyze so far
    nreq,     \* how many requests this call of analyze made to each endpoint
    meta,     \* analyze's local variable meta
    text,     \* analyze's local variable text: the tokens of the extracted text
    \* addHandler and the index:
    hpc,      \* per request goroutine: position inside addHandler
    rq,       \* per request goroutine: the request it serves
    resp,     \* per request goroutine: the status code it answered with
    index,    \* the documents of the bleve index, each under its identifier
    owner,    \* the request goroutine whose call of analyze is in progress
    hrec,     \* per request goroutine: whether something went wrong in its
              \* call of analyze, whether that call made the /tika request,
              \* and whether the handler called store
    \* store and searchHandler:
    iop,      \* the last index operation: a store, or the word searched for;
              \* its outcome; what the index held under the identifier
    last,     \* per identifier: the document of the last store that succeeded
    hits,     \* the hits of the last search
    \* readMeta:
    mmeta,    \* readMeta's local variable meta
    mlast,    \* the last line scanned and what became of it
    mn,       \* the number of lines scanned
    mdone,    \* readMeta has returned
    merr      \* the error readMeta returned

supVars == <<layout, phase, bound, cfg, chans, procs, pc, cfgOf, h, res, tk, kw, ncalls>>
anVars == <<input, rpos, buf, apc, tpc, held, metaBody, textBody, textSent, ares, err, seen, nreq, meta, text>>
metaVars == <<mmeta, mlast, mn, mdone, merr>>
idxVars == <<iop, last, hits, metaVars>>
ingVars == <<hpc, rq, resp, index, owner, hrec, idxVars>>
vars == <<supVars, anVars, ingVars>>

\* The zero value of config's supervisor fields.
ZeroConfig == [tikaCh |-> 0, tika |-> 0, mu |-> FALSE]

\* h: tika0 is the tracked handle the call found at entry, rep0 tells whether
\* the exit of that process had been delivered by its watcher by then.
NoCall == [op |-> "none", tika0 |-> 0, rep0 |-> FALSE]

\* res: r is the returned error ("ok" for nil) or "panic"; via is the return
\* statement taken; tracked0 and rep0 are what the call found at entry.
NoRes == [r |-> "none", via |-> "none", tracked0 |-> FALSE, rep0 |-> FALSE]

SupInit ==
    /\ layout \in Layouts
    /\ phase = IF layout = "supervisor" THEN "serving" ELSE "start"
    /\ bound = ZeroConfig
    /\ cfg = <<ZeroConfig>>
    /\ chans = <<>>
    /\ procs = <<>>
    /\ pc = [t \in Thr |-> "idle"]
    /\ cfgOf = [t \in Thr |-> 1]
    /\ h = [t \in Thr |-> NoCall]
    /\ res = [t \in Thr |-> NoRes]
    /\ tk = [t \in Thr |-> 0]
    /\ kw = [t \in Thr |-> "none"]
    /\ ncalls = 0

\* analyze has not been called.
AnIdle ==
    /\ input = <<>>
    /\ rpos = 0
    /\ buf = <<>>
    /\ apc = "none"
    /\ tpc = "none"
    /\ held = [g \in {"transport", "analyze"} |-> <<>>]
    /\ metaBody = <<>>
    /\ textBody = <<>>
    /\ textSent = FALSE
    /\ ares = "none"
    /\ err = "nil"
    /\ seen = {}
    /\ nreq = [meta |-> 0, text |-> 0]
    /\ meta = "zero"
    /\ text = {}

\* Most documents the index is given (each under its own identifier).
MaxDocs == 11
DocIds == 1..MaxDocs

\* No index operation yet; no document stored under an identifier.
NoOp == [kind |-> "none", ok |-> TRUE, had |-> "none"]
NoDoc == [ID |-> 0, metadata |-> "zero", Text |-> {}]

\* var meta metadata: the zero value (Data, a nil map, as the set of its
\* key/value pairs; Created as "zero" or the instant parsed).
ZeroMeta == [Author |-> <<>>, ContentType |-> <<>>, Title |-> <<>>,
             Created |-> "zero", Data |-> {}]

\* Nothing has been scanned.
NoLine == [line |-> <<>>, out |-> "none", key |-> <<>>, value |-> <<>>]

\* A request that has not arrived, and what is recorded of it.
NoRequest == [kind |-> "none", id |-> "", fid |-> ""]
NoRec == [failed |-> FALSE, texted |-> FALSE, stored |-> FALSE]

\* No request has been served and the index is empty.
IngIdle ==
    /\ hpc = [t \in Req |-> "none"]
    /\ rq = [t \in Req |-> NoRequest]
    /\ resp = [t \in Req |-> 0]
    /\ index = {}
    /\ owner = 0
    /\ hrec = [t \in Req |-> NoRec]
    /\ iop = NoOp
    /\ last = [k \in DocIds |-> NoDoc]
    /\ hits = {}
    /\ mmeta = ZeroMeta
    /\ mlast = NoLine
    /\ mn = 0
    /\ mdone = FALSE
    /\ merr = "nil"

Init == SupInit /\ AnIdle /\ IngIdle

\* The Go program is running (os.Exit and an unrecovered panic end it).
Alive == phase \notin {"exited", "crashed"}

C(t) == cfg[cfgOf[t]]

\* c.tikaMu.Lock(): blocks while the mutex of *this* config object is held.
CanLock(t) == ~C(t).mu

\* The exit of the process tracked by config object c has been delivered by
\* its watcher.
Reported(c) == c.tika # 0 /\ procs[c.tika].sent

\* What a call finds when it has taken the lock.
Entry(t, op) == [op |-> op, tika0 |-> C(t).tika, rep0 |-> Reported(C(t))]

\* The deferred c.tikaMu.Unlock() together with the return of result r by
\* the return statement `via`, of a call that found e at entry.
Return(t, r, via, e) ==
    /\ pc' = [pc EXCEPT ![t] = "idle"]
    /\ h' = [h EXCEPT ![t] = NoCall]
    /\ res' = [res EXCEPT ![t] = [r |-> r, via |-> via,
                                  tracked0 |-> (e.tika0 # 0), rep0 |-> e.rep0]]
    /\ cfg' = [cfg EXCEPT ![cfgOf[t]].mu = FALSE]

----------------------------------------------------------------------------
\* ensureTikaServer

\* Mutant of SelectDefault: the two cases of the select swapped (return nil
\* when a value is waiting).
SelectDefault_Swapped(c) ==
    c.tikaCh # 0 /\ chans[c.tikaCh].buf # <<>>

\* The select of ensureTikaServer's first lines takes its default case: the
\* channel is non-nil and a receive cannot proceed (nothing buffered, not
\* closed).
SelectDefault(c) ==
    c.tikaCh # 0 /\ chans[c.tikaCh].buf = <<>> /\ ~chans[c.tikaCh].closed

\* c.tikaMu.Lock(); defer c.tikaMu.Unlock();
\* if c.tikaCh != nil { select { case err := <-c.tikaCh: ...; default: return nil } }
\* A receive succeeds when the buffer holds a value or the channel is closed.
EnsureEnter(t) ==
    /\ Alive /\ pc[t] = "e_lock" /\ CanLock(t)
    /\ LET ch == C(t).tikaCh IN
       IF SelectDefault(C(t))
       THEN /\ Return(t, "ok", "default", Entry(t, "ensure"))
            /\ UNCHANGED chans
       ELSE /\ cfg' = [cfg EXCEPT ![cfgOf[t]].mu = TRUE]
            /\ h' = [h EXCEPT ![t] = Entry(t, "ensure")]
            /\ pc' = [pc EXCEPT ![t] = IF ch = 0 THEN "e_start" ELSE "e_close"]
            /\ chans' = IF ch # 0 /\ chans[ch].buf # <<>>
                        THEN [chans EXCEPT ![ch].buf = Tail(@)]
                        ELSE chans
            /\ UNCHANGED res
    /\ UNCHANGED <<anVars, ingVars, layout, phase, bound, procs, cfgOf, tk, kw, ncalls>>

\* close(c.tikaCh): panics when the channel is already closed. The deferred
\* Unlock runs; net/http recovers the panic of a handler goroutine, any other
\* panic ends the program.
EnsureClose(t) ==
    /\ Alive /\ pc[t] = "e_close"
    /\ LET ch == C(t).tikaCh IN
       IF chans[ch].closed
       THEN /\ Return(t, "panic", "close", h[t])
            /\ phase' = IF t = 0 \/ layout = "supervisor" THEN "crashed" ELSE phase
            /\ UNCHANGED chans
       ELSE /\ chans' = [chans EXCEPT ![ch].closed = TRUE]
            /\ pc' = [pc EXCEPT ![t] = "e_start"]
            /\ UNCHANGED <<cfg, h, res, phase>>
    /\ UNCHANGED <<anVars, ingVars, layout, bound, procs, cfgOf, tk, kw, ncalls>>

\* A freshly started worker process; its watcher goroutine (cmd.Wait, then
\* c.tikaCh <- err) belongs to config object c; t is the launching
\* goroutine. sig lists the signals sent to it.
NewProc(c, t) ==
    [st |-> "running", sent |-> FALSE, cfg |-> c, by |-> t, sig |-> <<>>]

\* c.tikaCh = make(chan error, 1); cmd.Start(): on error return err (c.tika
\* is left as it was); otherwise c.tika = cmd.Process and the watcher
\* goroutine is started.
EnsureStart(t) ==
    /\ Alive /\ pc[t] = "e_start"
    /\ chans' = Append(chans, [buf |-> <<>>, closed |-> FALSE])
    /\ \/ /\ pc' = [pc EXCEPT ![t] = "idle"]
          /\ h' = [h EXCEPT ![t] = NoCall]
          /\ res' = [res EXCEPT ![t] = [r |-> "err", via |-> "startfail",
                                        tracked0 |-> (h[t].tika0 # 0),
                                        rep0 |-> h[t].rep0]]
          /\ cfg' = [cfg EXCEPT ![cfgOf[t]].tikaCh = Len(chans) + 1,
                                ![cfgOf[t]].mu = FALSE]
          /\ UNCHANGED procs
       \/ /\ procs' = Append(procs, NewProc(cfgOf[t], t))
          /\ cfg' = [cfg EXCEPT ![cfgOf[t]].tikaCh = Len(chans) + 1,
                                ![cfgOf[t]].tika = Len(procs) + 1]
          /\ pc' = [pc EXCEPT ![t] = "e_grace"]
          /\ UNCHANGED <<h, res>>
    /\ UNCHANGED <<anVars, ingVars, layout, phase, bound, cfgOf, tk, kw, ncalls>>

\* The result of ensureTikaServer when the watcher's value s (the worker's
\* exit status) is received in the grace period: cmd.Wait()'s error, which
\* is nil for status 0.
WaitErr(s) == IF s = 0 THEN "ok" ELSE "err"

\* select { case err := <-c.tikaCh: return err
\*          case <-time.After(100 * time.Millisecond): return nil }
\* The timer case is taken only when no value arrived before it fired.
EnsureGrace(t) ==
    /\ Alive /\ pc[t] = "e_grace"
    /\ LET ch == C(t).tikaCh IN
       IF chans[ch].buf # <<>>
       THEN /\ chans' = [chans EXCEPT ![ch].buf = Tail(@)]
            /\ Return(t, WaitErr(Head(chans[ch].buf)), "recv", h[t])
       ELSE /\ Return(t, "ok", "timeout", h[t])
            /\ UNCHANGED chans
    /\ UNCHANGED <<anVars, ingVars, layout, phase, bound, procs, cfgOf, tk, kw, ncalls>>

----------------------------------------------------------------------------
\* killTikaServer

\* Mutant of KillEnter: the handle is not detached (c.tika = nil missing).
KillEnter_NoDetach(t) ==
    /\ Alive /\ pc[t] = "k_lock" /\ CanLock(t)
    /\ IF C(t).tika = 0
       THEN /\ Return(t, "ok", "untracked", Entry(t, "kill"))
            /\ UNCHANGED <<tk, kw>>
       ELSE /\ tk' = [tk EXCEPT ![t] = C(t).tika]
            /\ cfg' = [cfg EXCEPT ![cfgOf[t]].mu = TRUE]
            /\ kw' = [kw EXCEPT ![t] = "waiting"]
            /\ pc' = [pc EXCEPT ![t] = "k_signal"]
            /\ h' = [h EXCEPT ![t] = Entry(t, "kill")]
            /\ UNCHANGED res
    /\ UNCHANGED <<anVars, ingVars, layout, phase, bound, chans, procs, cfgOf, ncalls>>

\* c.tikaMu.Lock(); defer c.tikaMu.Unlock();
\* if c.tika == nil { return nil }; tika := c.tika; c.tika = nil;
\* exited := make(chan struct{}, 1); go func() { tika.Wait(); exited <- ... }()
KillEnter(t) ==
    /\ Alive /\ pc[t] = "k_lock" /\ CanLock(t)
    /\ IF C(t).tika = 0
       THEN /\ Return(t, "ok", "untracked", Entry(t, "kill"))
            /\ UNCHANGED <<tk, kw>>
       ELSE /\ tk' = [tk EXCEPT ![t] = C(t).tika]
            /\ cfg' = [cfg EXCEPT ![cfgOf[t]].tika = 0, ![cfgOf[t]].mu = TRUE]
            /\ kw' = [kw EXCEPT ![t] = "waiting"]
            /\ pc' = [pc EXCEPT ![t] = "k_signal"]
            /\ h' = [h EXCEPT ![t] = Entry(t, "kill")]
            /\ UNCHANGED res
    /\ UNCHANGED <<anVars, ingVars, layout, phase, bound, chans, procs, cfgOf, ncalls>>

\* Mutant of KillSignal: tika.Kill() in place of tika.Signal(SIGTERM).
KillSignal_Kill(t) ==
    /\ Alive /\ pc[t] = "k_signal"
    /\ procs' = [procs EXCEPT ![tk[t]].sig = Append(@, "KILL")]
    /\ pc' = [pc EXCEPT ![t] = "k_wait"]
    /\ UNCHANGED <<anVars, ingVars, layout, phase, bound, cfg, chans, cfgOf, h, res, tk, kw, ncalls>>

\* tika.Signal(syscall.SIGTERM); an error is only logged.
KillSignal(t) ==
    /\ Alive /\ pc[t] = "k_signal"
    /\ procs' = [procs EXCEPT ![tk[t]].sig = Append(@, "TERM")]
    /\ pc' = [pc EXCEPT ![t] = "k_wait"]
    /\ UNCHANGED <<anVars, ingVars, layout, phase, bound, cfg, chans, cfgOf, h, res, tk, kw, ncalls>>

\* Mutant of KillWait: the timer case is missing (a plain <-exited).
KillWait_NoTimeout(t) ==
    /\ Alive /\ pc[t] = "k_wait"
    /\ kw[t] = "sent"
    /\ Return(t, "ok", "exited", h[t])
    /\ kw' = [kw EXCEPT ![t] = "none"]
    /\ tk' = [tk EXCEPT ![t] = 0]
    /\ UNCHANGED <<anVars, ingVars, layout, phase, bound, chans, procs, cfgOf, ncalls>>

\* select { case <-exited:
\*          case <-time.After(5 * time.Second): tika.Kill() }; return nil
\* The timer case is taken only when the waiter reported nothing before it
\* fired.
KillWait(t) ==
    /\ Alive /\ pc[t] = "k_wait"
    /\ IF kw[t] = "sent"
       THEN /\ Return(t, "ok", "exited", h[t])
            /\ UNCHANGED procs
       ELSE /\ procs' = [procs EXCEPT ![tk[t]].sig = Append(@, "KILL")]
            /\ Return(t, "ok", "killed", h[t])
    /\ kw' = [kw EXCEPT ![t] = "none"]
    /\ tk' = [tk EXCEPT ![t] = 0]
    /\ UNCHANGED <<anVars, ingVars, layout, phase, bound, chans, cfgOf, ncalls>>

\* The goroutine started by killTikaServer: tika.Wait() returns once the
\* process has exited, then exited <- struct{}{}.
KillWaiter(t) ==
    /\ Alive /\ kw[t] = "waiting"
    /\ procs[tk[t]].st = "exited"
    /\ kw' = [kw EXCEPT ![t] = "sent"]
    /\ UNCHANGED <<anVars, ingVars, layout, phase, bound, cfg, chans, procs, pc, cfgOf, h, res, tk, ncalls>>

----------------------------------------------------------------------------
\* The worker process and the watcher goroutine of ensureTikaServer

\* The worker exits (crash, stop, or the effect of a signal).
ProcExit(p) ==
    /\ p \in DOMAIN procs
    /\ procs[p].st = "running"
    /\ procs' = [procs EXCEPT ![p].st = "exited"]
    /\ UNCHANGED <<anVars, ingVars, layout, phase, bound, cfg, chans, pc, cfgOf, h, res, tk, kw, ncalls>>

\* go func() { err := cmd.Wait(); c.tikaCh <- err }(): cmd.Wait() yields the
\* exit status s, and c.tikaCh is read when the send happens. A send on a
\* closed channel panics in a goroutine nobody recovers; a send on a full
\* channel blocks.
WatcherSend(p) ==
    /\ p \in DOMAIN procs
    /\ Alive /\ procs[p].st = "exited" /\ ~procs[p].sent
    /\ LET ch == cfg[procs[p].cfg].tikaCh IN
       IF chans[ch].closed
       THEN /\ phase' = "crashed"
            /\ UNCHANGED chans
       ELSE /\ Len(chans[ch].buf) < 1
            /\ \E s \in {0, 1} :
                 chans' = [chans EXCEPT ![ch].buf = Append(@, s)]
            /\ UNCHANGED phase
    /\ procs' = [procs EXCEPT ![p].sent = TRUE]
    /\ UNCHANGED <<anVars, ingVars, layout, bound, cfg, pc, cfgOf, h, res, tk, kw, ncalls>>

----------------------------------------------------------------------------
\* main and the HTTP handlers

\* http.HandleFunc(..., conf.rootHandler / conf.addHandler): the method value
\* of a value-receiver method copies conf. part_001 registers before
\* ensureTikaServer, part_002 and main.go after it.
MainRegister ==
    /\ \/ layout = "part_001" /\ phase = "start"
       \/ layout = "part_002" /\ phase = "ensured"
    /\ bound' = cfg[1]
    /\ phase' = IF layout = "part_001" THEN "registered" ELSE "serving"
    /\ UNCHANGED <<anVars, ingVars, layout, cfg, chans, procs, pc, cfgOf, h, res, tk, kw, ncalls>>

\* conf.ensureTikaServer() in main
MainEnsure ==
    /\ \/ layout = "part_001" /\ phase = "registered"
       \/ layout = "part_002" /\ phase = "start"
    /\ pc[0] = "idle"
    /\ pc' = [pc EXCEPT ![0] = "e_lock"]
    /\ phase' = "ensuring"
    /\ UNCHANGED <<anVars, ingVars, layout, bound, cfg, chans, procs, cfgOf, h, res, tk, kw, ncalls>>

\* if err != nil { os.Exit(1) }; part_001 goes on with conf.killTikaServer()
MainAfterEnsure ==
    /\ phase = "ensuring" /\ pc[0] = "idle"
    /\ IF res[0].r # "ok"
       THEN phase' = "exited" /\ UNCHANGED pc
       ELSE IF layout = "part_001"
       THEN phase' = "killing" /\ pc' = [pc EXCEPT ![0] = "k_lock"]
       ELSE phase' = "ensured" /\ UNCHANGED pc
    /\ UNCHANGED <<anVars, ingVars, layout, bound, cfg, chans, procs, cfgOf, h, res, tk, kw, ncalls>>

\* http.ListenAndServe after part_001's killTikaServer returned
MainServe ==
    /\ phase = "killing" /\ pc[0] = "idle"
    /\ phase' = "serving"
    /\ UNCHANGED <<anVars, ingVars, layout, bound, cfg, chans, procs, pc, cfgOf, h, res, tk, kw, ncalls>>

\* Goroutine t made a call. Request goroutines are interchangeable:
\* goroutine t + 1 makes its first call after goroutine t made its first.
Started(t) == pc[t] # "idle" \/ res[t] # NoRes

InTurn(t) == t = 1 \/ Started(t - 1)

\* putHandler / addHandler: the receiver c is a new copy of the bound config,
\* and c.ensureTikaServer() works on that copy.
HandlerEnsure(t) ==
    /\ layout \in {"part_001", "part_002"} /\ phase = "serving"
    /\ pc[t] = "idle" /\ InTurn(t) /\ ncalls < MaxReqs
    /\ cfg' = Append(cfg, bound)
    /\ cfgOf' = [cfgOf EXCEPT ![t] = Len(cfg) + 1]
    /\ pc' = [pc EXCEPT ![t] = "e_lock"]
    /\ ncalls' = ncalls + 1
    /\ UNCHANGED <<anVars, ingVars, layout, phase, bound, chans, procs, h, res, tk, kw>>

\* A caller holding the *config calls ensureTikaServer or killTikaServer.
ClientCall(t) ==
    /\ layout = "supervisor" /\ Alive
    /\ pc[t] = "idle" /\ InTurn(t) /\ ncalls < MaxCalls
    /\ \E op \in {"e_lock", "k_lock"} : pc' = [pc EXCEPT ![t] = op]
    /\ ncalls' = ncalls + 1
    /\ UNCHANGED <<anVars, ingVars, layout, phase, bound, cfg, chans, procs, cfgOf, h, res, tk, kw>>

\* The ids of the processes a run can launch.
ProcIds == 1..(MaxCalls + MaxReqs + 1)

Next ==
    \/ \E t \in Thr : EnsureEnter(t)
    \/ \E t \in Thr : EnsureClose(t)
    \/ \E t \in Thr : EnsureStart(t)
    \/ \E t \in Thr : EnsureGrace(t)
    \/ \E t \in Thr : KillEnter(t)
    \/ \E t \in Thr : KillSignal(t)
    \/ \E t \in Thr : KillWait(t)
    \/ \E t \in Thr : KillWaiter(t)
    \/ \E p \in ProcIds : ProcExit(p)
    \/ \E p \in ProcIds : WatcherSend(p)
    \/ MainRegister
    \/ MainEnsure
    \/ MainAfterEnsure
    \/ MainServe
    \/ \E t \in Req : HandlerEnsure(t)
    \/ \E t \in Req : ClientCall(t)

Spec == Init /\ [][Next]_vars

\* Scheduling: a goroutine inside killTikaServer keeps running (the Go
\* scheduler runs a runnable goroutine, and time.After fires). Nothing is
\* assumed of the worker process: it may ignore SIGTERM for ever.
FairSpec ==
    Spec /\ \A t \in Thr : WF_vars(KillSignal(t)) /\ WF_vars(KillWait(t))

----------------------------------------------------------------------------
\* config.analyze: the /meta request streams r through a TeeReader into buf,
\* the rest of r is drained into buf, the /tika request is made from buf.
\*
\* The body of the /meta request is copied to the connection by a goroutine
\* of the HTTP transport; c.httpClient.Do returns when the response has been
\* read, which may be before that goroutine has finished with the body (the
\* worker may answer before it has consumed its whole request body). The
\* goroutine stops when it reaches the end of the body or when the write to
\* the connection fails after the connection has been given up.

Readers == {"transport", "analyze"}

\* The words an extracted text can hold, and the extracted texts (b, err :=
\* ioutil.ReadAll(resp.Body); text = string(b)), each as the set of its words.
Tokens == {"t"}
Texts == SUBSET Tokens

\* All documents of at most MaxLen bytes.
Docs == UNION {[1..n -> Bytes] : n \in 0..MaxLen}

\* r2.Read, first half: t.r.Read(p) takes the next n bytes of r.
TeeTake(g, n) ==
    /\ held' = [held EXCEPT ![g] = SubSeq(input, rpos + 1, rpos + n)]
    /\ rpos' = rpos + n

\* r2.Read, second half: t.w.Write(p[:n]) appends the bytes taken to buf.
TeePut(g) ==
    /\ buf' = buf \o held[g]
    /\ held' = [held EXCEPT ![g] = <<>>]

\* req, err := http.NewRequest("PUT", baseUrl+"/meta", r2); c.httpClient.Do(req)
A_DoMeta ==
    /\ apc = "start"
    /\ apc' = "meta_wait"
    /\ tpc' = "copy"
    /\ nreq' = [nreq EXCEPT !.meta = @ + 1]
    /\ UNCHANGED <<supVars, ingVars, meta, text, input, rpos, buf, held, metaBody, textBody, textSent, ares, err, seen>>

\* The transport reads the request body: the next chunk, io.EOF, or an error
\* of the caller's stream.
T_Read ==
    /\ tpc = "copy"
    /\ \/ /\ rpos < Len(input)
          /\ \E n \in 1..(Len(input) - rpos) : TeeTake("transport", n)
          /\ tpc' = "tee"
       \/ /\ rpos = Len(input)
          /\ tpc' = "done"
          /\ UNCHANGED <<held, rpos>>
       \/ /\ tpc' = "failed"
          /\ UNCHANGED <<held, rpos>>
    /\ UNCHANGED <<supVars, ingVars, meta, text, nreq, input, buf, apc, metaBody, textBody, textSent, ares, err, seen>>

\* The TeeReader writes what the transport's Read took to buf, and the
\* transport sends it to the worker.
T_Tee ==
    /\ tpc = "tee"
    /\ TeePut("transport")
    /\ metaBody' = metaBody \o held["transport"]
    /\ tpc' = "copy"
    /\ UNCHANGED <<supVars, ingVars, meta, text, nreq, input, rpos, apc, textBody, textSent, ares, err, seen>>

\* The response has been delivered and the connection is given up: the
\* transport's next write fails and it reads no more of the body.
T_Stop ==
    /\ tpc = "copy"
    /\ apc \notin {"start", "meta_wait"}
    /\ tpc' = "done"
    /\ UNCHANGED <<supVars, ingVars, meta, text, nreq, input, rpos, buf, apc, held, metaBody, textBody, textSent, ares, err, seen>>

\* return meta, text, err
A_Return(what) ==
    /\ apc' = "done"
    /\ ares' = what

\* resp, err := c.httpClient.Do(req) returns: an error (lines 206-208), a
\* response with StatusCode >= 400 (lines 210-212: return meta, text, err,
\* with the err that Do returned), or a response to read. The worker answers
\* when it chooses to.
A_MetaResp ==
    /\ apc = "meta_wait"
    /\ \/ /\ tpc = "failed"
          /\ err' = "err"
          /\ seen' = seen \cup {"meta_send"}
          /\ A_Return("err")
       \/ /\ tpc # "failed"
          /\ \/ /\ err' = "err"
                /\ seen' = seen \cup {"meta_send"}
                /\ A_Return("err")
             \/ /\ err' = "nil"
                /\ seen' = seen \cup {"meta_status"}
                /\ A_Return(err')
             \/ /\ err' = "nil"
                /\ seen' = seen
                /\ apc' = "readmeta"
                /\ ares' = ares
    /\ UNCHANGED <<supVars, ingVars, meta, text, nreq, input, rpos, buf, tpc, held, metaBody, textBody, textSent>>

\* meta, err = readMeta(resp.Body): err is scanner.Err(), non-nil when
\* reading the response body failed.
A_ReadMeta ==
    /\ apc = "readmeta"
    /\ \/ /\ err' = "nil"
          /\ seen' = seen
          /\ meta' = "parsed"
       \/ /\ err' = "err"
          /\ seen' = seen \cup {"meta_read"}
          /\ meta' = "partial"
    /\ apc' = "drain"
    /\ UNCHANGED <<supVars, ingVars, text, nreq, input, rpos, buf, tpc, held, metaBody, textBody, textSent, ares>>

\* if _, err = io.Copy(ioutil.Discard, r2); err != nil { return ... }: a Read
\* of r2 gives the next chunk, io.EOF (the copy is over, err is assigned
\* nil), or an error of the caller's stream.
A_DrainRead ==
    /\ apc = "drain"
    /\ \/ /\ rpos < Len(input)
          /\ \E n \in 1..(Len(input) - rpos) : TeeTake("analyze", n)
          /\ apc' = "drain_tee"
          /\ UNCHANGED <<ares, err, seen>>
       \/ /\ rpos = Len(input)
          /\ err' = "nil"
          /\ apc' = "text"
          /\ UNCHANGED <<held, rpos, ares, seen>>
       \/ /\ err' = "err"
          /\ seen' = seen \cup {"drain"}
          /\ A_Return("err")
          /\ UNCHANGED <<held, rpos>>
    /\ UNCHANGED <<supVars, ingVars, meta, text, nreq, input, buf, tpc, metaBody, textBody, textSent>>

\* The TeeReader writes what the drain's Read took to buf.
A_DrainTee ==
    /\ apc = "drain_tee"
    /\ TeePut("analyze")
    /\ apc' = "drain"
    /\ UNCHANGED <<supVars, ingVars, meta, text, nreq, input, rpos, tpc, metaBody, textBody, textSent, ares, err, seen>>

\* http.NewRequest("PUT", baseUrl+"/tika", bytes.NewReader(buf.Bytes())) and
\* c.httpClient.Do(req): the body is what buf holds now.
A_TextReq ==
    /\ apc = "text"
    /\ textBody' = buf
    /\ textSent' = TRUE
    /\ apc' = "text_wait"
    /\ nreq' = [nreq EXCEPT !.text = @ + 1]
    /\ UNCHANGED <<supVars, ingVars, meta, text, input, rpos, buf, tpc, held, metaBody, ares, err, seen>>

\* resp, err = c.httpClient.Do(req): an error (lines 224-226), StatusCode >=
\* 400 (lines 228-230, return with the err that Do returned), or a body that
\* ioutil.ReadAll reads or fails to read (lines 231-236).
A_TextResp ==
    /\ apc = "text_wait"
    /\ \/ /\ err' = "err"
          /\ seen' = seen \cup {"text_send"}
          /\ text' = text
       \/ /\ err' = "nil"
          /\ seen' = seen \cup {"text_status"}
          /\ text' = text
       \/ /\ err' = "err"
          /\ seen' = seen \cup {"text_read"}
          /\ text' = text
       \/ /\ err' = "nil"
          /\ seen' = seen
          /\ text' \in Texts
    /\ A_Return(err')
    /\ UNCHANGED <<supVars, ingVars, meta, nreq, input, rpos, buf, tpc, held, metaBody, textBody, textSent>>

\* analyze is called with a document; the supervisor is left alone.
InitAnalyze ==
    /\ SupInit
    /\ IngIdle
    /\ layout = "part_002"
    /\ input \in Docs
    /\ rpos = 0
    /\ buf = <<>>
    /\ apc = "start"
    /\ tpc = "none"
    /\ held = [g \in Readers |-> <<>>]
    /\ metaBody = <<>>
    /\ textBody = <<>>
    /\ textSent = FALSE
    /\ ares = "none"
    /\ err = "nil"
    /\ seen = {}
    /\ nreq = [meta |-> 0, text |-> 0]
    /\ meta = "zero"
    /\ text = {}

NextAnalyze ==
    \/ A_DoMeta
    \/ T_Read
    \/ T_Tee
    \/ T_Stop
    \/ A_MetaResp
    \/ A_ReadMeta
    \/ A_DrainRead
    \/ A_DrainTee
    \/ A_TextReq
    \/ A_TextResp

SpecAnalyze == InitAnalyze /\ [][NextAnalyze]_vars

----------------------------------------------------------------------------
\* config.addHandler (POST/PUT /add), config.store and the bleve index.

\* The identifiers a request can carry; "" is a missing id.
Ids == {"x", "y"}

\* The requests, each with the id of its query (id) and the id of its form
\* (fid): ?id=<id> with the document as the body ("raw"); a request whose
\* Content-Type header is exactly "multipart/form-data" or
\* "application/x-www-form-encoded" ("form"); a multipart upload with the form
\* field id and one file, whose Content-Type header is "multipart/form-data;
\* boundary=..." as every multipart request's is ("multipart").
Requests ==
    [kind : {"raw"}, id : Ids \cup {""}, fid : {""}]
        \cup [kind : {"form"}, id : {""}, fid : Ids]
        \cup [kind : {"multipart"}, id : {"", "y"}, fid : {"x"}]

\* The request bodies.
Bodies == {<<>>, <<"a">>}

\* The file of a multipart upload, and the request body that carries it.
UploadedFile == <<"a">>
Envelope(file) == <<"--boundary">> \o file

\* r.Body of a request.
BodyOf(r) == IF r.kind = "multipart" THEN {Envelope(UploadedFile)} ELSE Bodies

\* doc := document{ID: ID, metadata: meta, Text: text}
Document(ID, m, txt) == [ID |-> ID, metadata |-> m, Text |-> txt]

\* c.index.Index(key, doc): bleve indexes doc under the identifier key, in
\* place of what the index held under that identifier.
IndexPut(idx, key, doc) ==
    {e \in idx : e.key # key} \cup {[key |-> key, doc |-> doc]}

\* store with Index under a new identifier of its own: every store adds a
\* document.
Store_NoReplace(idx, ID, m, txt) ==
    idx \cup {[key |-> ID, doc |-> Document(ID, m, txt)]}

\* store: return c.index.Index(ID, doc)
Store(idx, ID, m, txt) == IndexPut(idx, ID, Document(ID, m, txt))

\* A call of a value-receiver handler: the receiver c is a new copy of the
\* bound config, and c.ensureTikaServer() works on that copy.
OnCopy(t) ==
    /\ cfg' = Append(cfg, bound)
    /\ cfgOf' = [cfgOf EXCEPT ![t] = Len(cfg) + 1]
    /\ pc' = [pc EXCEPT ![t] = "e_lock"]
    /\ ncalls' = ncalls + 1

\* The client sends its requests one after the other: request t + 1 when
\* request t has been answered (or has ended without an answer).
AddInTurn(t) == IF t = 1 THEN TRUE ELSE hpc[t - 1] = "done"

Answer(t, code) ==
    /\ resp' = [resp EXCEPT ![t] = code]
    /\ hpc' = [hpc EXCEPT ![t] = "done"]

\* addHandler is called with a request and calls c.ensureTikaServer().
AddBegin(t) ==
    /\ layout = "part_002" /\ phase = "serving"
    /\ hpc[t] = "none" /\ pc[t] = "idle" /\ AddInTurn(t) /\ ncalls < MaxReqs
    /\ OnCopy(t)
    /\ \E r \in Requests : rq' = [rq EXCEPT ![t] = r]
    /\ hpc' = [hpc EXCEPT ![t] = "ensure"]
    /\ UNCHANGED <<anVars, layout, phase, bound, chans, procs, h, res, tk, kw,
                   resp, index, owner, hrec, idxVars>>

\* c.ensureTikaServer() has returned: 500 on an error (lines 132-135); a
\* panic ends the request without an answer (net/http recovers it).
AddEnsured(t) ==
    /\ hpc[t] = "ensure" /\ pc[t] = "idle"
    /\ CASE res[t].r = "panic" -> Answer(t, 0)
         [] res[t].r = "err" -> Answer(t, 500)
         [] OTHER -> hpc' = [hpc EXCEPT ![t] = "parse"] /\ resp' = resp
    /\ UNCHANGED <<supVars, anVars, rq, index, owner, hrec, idxVars>>

\* Lines 137-167: a form request (ct == "multipart/form-data" || ct ==
\* "application/x-www-form-encoded") is answered 400 (r.ParseForm fails, or
\* r.MultipartForm is nil: ParseForm does not read a multipart body); every
\* other request, a multipart upload too, takes its id from the query and is
\* answered 400 when it is "".
AddParse(t) ==
    /\ hpc[t] = "parse"
    /\ IF rq[t].kind = "form" \/ rq[t].id = ""
       THEN Answer(t, 400)
       ELSE hpc' = [hpc EXCEPT ![t] = "call"] /\ resp' = resp
    /\ UNCHANGED <<supVars, anVars, rq, index, owner, hrec, idxVars>>

\* meta, text, err := c.analyze(r.Body): the call begins with the request
\* body (not with bdy) as its stream. Calls of analyze share nothing; they are taken one at a
\* time.
AddAnalyze(t) ==
    /\ hpc[t] = "call" /\ owner = 0
    /\ owner' = t
    /\ input' \in BodyOf(rq[t])
    /\ apc' = "start"
    /\ hpc' = [hpc EXCEPT ![t] = "analyze"]
    /\ UNCHANGED <<supVars, rpos, buf, tpc, held, metaBody, textBody, textSent,
                   ares, err, seen, nreq, meta, text, rq, resp, index, hrec, idxVars>>

\* What is recorded of a call of analyze when it has returned.
Rec(stored) == [failed |-> seen # {}, texted |-> textSent, stored |-> stored]

\* analyze has returned (lines 170-181): 500 on an error; otherwise
\* c.store(id, meta, text), 500 when it fails and 201 when it succeeds.
AddAnalyzed(t) ==
    /\ hpc[t] = "analyze" /\ owner = t /\ apc = "done"
    /\ owner' = 0
    /\ IF ares = "err"
       THEN /\ Answer(t, 500)
            /\ hrec' = [hrec EXCEPT ![t] = Rec(FALSE)]
            /\ index' = index
       ELSE /\ hrec' = [hrec EXCEPT ![t] = Rec(TRUE)]
            /\ \/ /\ index' = Store(index, rq[t].id, meta, text)
                  /\ Answer(t, 201)
               \/ /\ index' = index
                  /\ Answer(t, 500)
    /\ input' = <<>> /\ rpos' = 0 /\ buf' = <<>> /\ apc' = "none" /\ tpc' = "none"
    /\ held' = [g \in Readers |-> <<>>]
    /\ metaBody' = <<>> /\ textBody' = <<>> /\ textSent' = FALSE
    /\ ares' = "none" /\ err' = "nil" /\ seen' = {}
    /\ nreq' = [meta |-> 0, text |-> 0] /\ meta' = "zero" /\ text' = {}
    /\ UNCHANGED <<supVars, rq, idxVars>>

NextIngest ==
    \/ MainEnsure
    \/ MainAfterEnsure
    \/ MainRegister
    \/ \E t \in Thr : EnsureEnter(t)
    \/ \E t \in Thr : EnsureClose(t)
    \/ \E t \in Thr : EnsureStart(t)
    \/ \E t \in Thr : EnsureGrace(t)
    \/ \E p \in ProcIds : ProcExit(p)
    \/ \E p \in ProcIds : WatcherSend(p)
    \/ \E t \in Req : AddBegin(t)
    \/ \E t \in Req : AddEnsured(t)
    \/ \E t \in Req : AddParse(t)
    \/ \E t \in Req : AddAnalyze(t)
    \/ \E t \in Req : AddAnalyzed(t)
    \/ A_DoMeta
    \/ T_Read
    \/ T_Tee
    \/ T_Stop
    \/ A_MetaResp
    \/ A_ReadMeta
    \/ A_DrainRead
    \/ A_DrainTee
    \/ A_TextReq
    \/ A_TextResp

InitIngest == Init /\ layout = "part_002"

SpecIngest == InitIngest /\ [][NextIngest]_vars

----------------------------------------------------------------------------
\* config.store and config.searchHandler on the bleve index.

\* bleve.NewSearchRequest(qry): a search request for the first 10 hits.
SearchSize == 10

\* The documents of the index that hold the word q.
Matching(idx, q) == {e \in idx : q \in e.doc.Text}

\* c.index.Search(bleve.NewSearchRequest(qry)): the possible hit lists, each
\* the best SearchSize matching documents (all of them when there are fewer);
\* which documents score best is bleve's ranking.
Search(idx, q) ==
    LET m == Matching(idx, q)
    IN  IF Cardinality(m) <= SearchSize
        THEN {m}
        ELSE {H \in SUBSET m : Cardinality(H) = SearchSize}

\* The identifiers that hold a document.
Stored == {k \in DocIds : last[k] # NoDoc}

\* What the index holds under identifier k, compared with document d.
Had(k, d) ==
    IF \A e \in index : e.key # k THEN "none"
    ELSE IF [key |-> k, doc |-> d] \in index THEN "same" ELSE "other"

\* c.store(k, meta, txt), called with an identifier, metadata and a text;
\* c.index.Index may fail. Identifiers are interchangeable: a new one is the
\* next unused one.
StoreOp ==
    \E k \in DocIds, txt \in Texts, ok \in BOOLEAN :
        /\ k <= Cardinality(Stored) + 1
        /\ iop' = [kind |-> "store", ok |-> ok,
                   had |-> Had(k, Document(k, "parsed", txt))]
        /\ IF ok
           THEN /\ index' = Store(index, k, "parsed", txt)
                /\ last' = [last EXCEPT ![k] = Document(k, "parsed", txt)]
           ELSE UNCHANGED <<index, last>>
        /\ hits' = {}
        /\ UNCHANGED <<supVars, anVars, hpc, rq, resp, owner, hrec, metaVars>>

\* searchHandler: GET /search?q=<word>
SearchOp ==
    \E q \in Tokens :
        /\ hits' \in Search(index, q)
        /\ iop' = [kind |-> q, ok |-> TRUE, had |-> "none"]
        /\ UNCHANGED <<supVars, anVars, hpc, rq, resp, owner, hrec, index, last,
                       metaVars>>

NextIndex ==
    \/ StoreOp
    \/ SearchOp

InitIndex == Init /\ layout = "part_002"

SpecIndex == InitIndex /\ [][NextIndex]_vars

----------------------------------------------------------------------------
\* readMeta: the worker's /meta answer, lines of "key","value".

\* Most lines of a /meta answer.
MaxLines == 2

\* The bytes of a line: the quote, the comma, and words (a run of other
\* bytes, taken as one symbol).
Q == "\""
Comma == ","
Date == "2013-05-03T07:46:00Z"

\* The lines: an opening quote or none, a key, a separator (whole or
\* broken), a value (empty, a date, a word, or two words around a second
\* separator), a closing quote or none.
KeyFields == {<<>>, <<"Creation-Date">>, <<"Author">>, <<"k">>}
ValueFields == {<<>>, <<Date>>, <<"v">>, <<"v", Q, Comma, Q, "w">>}
Seps == {<<Q, Comma, Q>>, <<Comma>>, <<>>}
Quotes == {<<>>, <<Q>>}
MetaLines ==
    {q1 \o k \o sp \o v \o q2 :
        q1 \in Quotes, k \in KeyFields, sp \in Seps, v \in ValueFields, q2 \in Quotes}

\* bytes.TrimRight(s, cutset)
RECURSIVE TrimRight(_, _)
TrimRight(s, cutset) ==
    IF s # <<>> /\ s[Len(s)] \in cutset
    THEN TrimRight(SubSeq(s, 1, Len(s) - 1), cutset)
    ELSE s

\* bytes.TrimLeft(s, cutset)
RECURSIVE TrimLeft(_, _)
TrimLeft(s, cutset) ==
    IF s # <<>> /\ s[1] \in cutset THEN TrimLeft(Tail(s), cutset) ELSE s

\* bytes.Index(s, sep): the offset of the first sep in s, or -1.
Index(s, sep) ==
    LET at == {i \in 0..(Len(s) - Len(sep)) : SubSeq(s, i + 1, i + Len(sep)) = sep}
    IN  IF at = {} THEN -1 ELSE CHOOSE i \in at : \A j \in at : i <= j

\* bytes.Replace(s, []byte{'"'}, []byte{}, -1)
Unquote(s) == SelectSeq(s, LAMBDA b : b # Q)

\* Lines 322-329: trim the line, find the separator, cut key and value.
ParseLine(raw) ==
    LET line == TrimLeft(TrimRight(raw, {Q, "\n"}), {Q})
        i == Index(line, <<Q, Comma, Q>>)
    IN  IF i < 0
        THEN [line |-> raw, out |-> "skip", key |-> <<>>, value |-> <<>>]
        ELSE [line |-> raw, out |-> "pair", key |-> SubSeq(line, 1, i),
              value |-> Unquote(SubSeq(line, i + 4, Len(line)))]

\* time.Parse(time.RFC3339, value) gives any date at all.
TimeParse_Lenient(value) == IF value = <<>> THEN "zero" ELSE Date

\* meta.Created, err = time.Parse(time.RFC3339, value): the instant, or the
\* zero time with an error (which is logged).
TimeParse(value) == IF value = <<Date>> THEN Date ELSE "zero"

\* Lines 332-349: the switch on the key.
Put(m, key, value) ==
    CASE key = <<"Content-Type">> -> [m EXCEPT !.ContentType = value]
      [] key = <<"Author">> -> [m EXCEPT !.Author = value]
      [] key = <<"Creation-Date">> -> [m EXCEPT !.Created = TimeParse(value)]
      [] key = <<"title">> -> [m EXCEPT !.Title = value]
      [] OTHER -> [m EXCEPT !.Data =
                      {p \in @ : p[1] # key} \cup {<<key, value>>}]

\* scanner.Scan() gave a line: one turn of the loop.
ScanLine ==
    /\ ~mdone /\ mn < MaxLines
    /\ \E raw \in MetaLines :
          /\ mlast' = ParseLine(raw)
          /\ mmeta' = IF mlast'.out = "pair"
                      THEN Put(mmeta, mlast'.key, mlast'.value)
                      ELSE mmeta
    /\ mn' = mn + 1
    /\ UNCHANGED <<supVars, anVars, hpc, rq, resp, index, owner, hrec,
                   iop, last, hits, mdone, merr>>

\* scanner.Scan() gave false, at the end of the input or on a read error:
\* return meta, scanner.Err()
ScanEnd ==
    /\ ~mdone
    /\ \E failed \in BOOLEAN :
          /\ mlast' = [NoLine EXCEPT !.out = IF failed THEN "ioerr" ELSE "eof"]
          /\ merr' = IF failed THEN "err" ELSE "nil"
    /\ mdone' = TRUE
    /\ UNCHANGED <<supVars, anVars, hpc, rq, resp, index, owner, hrec,
                   iop, last, hits, mmeta, mn>>

NextMeta ==
    \/ ScanLine
    \/ ScanEnd

InitMeta == Init /\ layout = "part_002"

SpecMeta == InitMeta /\ [][NextMeta]_vars

----------------------------------------------------------------------------
\* The claims

EnsureVias == {"default", "close", "startfail", "recv", "timeout"}
KillVias == {"untracked", "exited", "killed"}

\* The pc values at which a goroutine holds the lock it took.
Locked == {"e_close", "e_start", "e_grace", "k_signal", "k_wait"}

\* C1: of the ensureTikaServer calls running at the same time that found no
\* worker tracked, at most one launches a worker process (a call at e_grace
\* has launched one).
C1_OneLaunch ==
    Cardinality({t \in Thr : pc[t] = "e_grace" /\ h[t].tika0 = 0}) <= 1

\* C2: a call of ensureTikaServer that begins after the exit of the tracked
\* worker was delivered launches a new worker (it reaches cmd.Start).
C2_RestartAfterExit ==
    \A t \in Thr :
      (res[t].via \in EnsureVias /\ res[t].rep0)
         => res[t].via \in {"startfail", "recv", "timeout"}

\* C3: a call of ensureTikaServer that finds no worker tracked (c.tika == nil)
\* does not return success without having launched a worker process.
C3_LaunchWhenUntracked ==
    \A t \in Thr :
      (res[t].via \in EnsureVias /\ ~res[t].tracked0 /\ res[t].r = "ok")
         => res[t].via \in {"recv", "timeout"}

\* The tracked worker of config object c has not signaled its exit.
NotSignaled(c) == c.tika # 0 /\ ~procs[c.tika].sent

\* C4: a call of ensureTikaServer made while the tracked worker has not
\* signaled exit returns nil at once, launches nothing and leaves the config
\* (handle, channel reference, lock), the channels and the processes as they
\* were.
C4_Idempotent ==
    [][\A t \in Thr :
         (pc[t] = "e_lock" /\ pc'[t] # "e_lock" /\ NotSignaled(C(t)))
            => /\ pc'[t] = "idle"
               /\ res'[t].r = "ok"
               /\ cfg' = cfg /\ chans' = chans /\ procs' = procs]_vars

\* C4 witness: a call returned by the default case while a worker was tracked
\* that had not signaled.
C4_Witness ==
    \E t \in Thr :
      res[t].via = "default" /\ res[t].tracked0 /\ ~res[t].rep0

\* C5: a call of ensureTikaServer that received the worker's exit status in
\* the grace period returns a failure, and one whose grace period elapsed
\* returns success.
C5_GraceResult ==
    \A t \in Thr :
      /\ res[t].via = "recv" => res[t].r = "err"
      /\ res[t].via = "timeout" => res[t].r = "ok"

\* C6: executions of ensureTikaServer and killTikaServer never overlap: at
\* most one goroutine is between Lock and Unlock.
C6_MutualExclusion ==
    Cardinality({t \in Thr : pc[t] \in Locked}) <= 1

\* C7: a call of killTikaServer that holds the lock returns.
C7_TerminateReturns ==
    \A t \in Thr : (pc[t] \in {"k_signal", "k_wait"}) ~> (pc[t] = "idle")

\* C7 witness: killTikaServer returned after the force kill while the worker,
\* having ignored SIGTERM, was still running.
C7_Witness ==
    \E t \in Thr : \E p \in 1..Len(procs) :
      /\ res[t].via = "killed"
      /\ procs[p].sig = <<"TERM", "KILL">> /\ procs[p].st = "running"

\* C8: killTikaServer on a tracked worker clears c.tika before it signals,
\* sends SIGTERM first, sends SIGKILL only after SIGTERM and only when the
\* waiter had reported no exit, and returns only when the exit was reported
\* or SIGKILL was sent.
C8_TerminateOrder ==
    /\ [](\A t \in Thr :
            /\ pc[t] = "k_signal" => C(t).tika = 0 /\ procs[tk[t]].sig = <<>>
            /\ pc[t] = "k_wait" => C(t).tika = 0 /\ procs[tk[t]].sig = <<"TERM">>)
    /\ [](\A p \in 1..Len(procs) :
            procs[p].sig \in {<<>>, <<"TERM">>, <<"TERM", "KILL">>})
    /\ [][\A t \in Thr :
            (pc[t] = "k_wait" /\ pc'[t] = "idle")
               => \/ /\ kw[t] = "sent"
                     /\ procs'[tk[t]].st = "exited"
                     /\ procs'[tk[t]].sig = <<"TERM">>
                  \/ /\ kw[t] # "sent"
                     /\ procs'[tk[t]].sig = <<"TERM", "KILL">>]_vars

\* C8 witness: killTikaServer returned after the waiter reported the exit of
\* the worker it had sent SIGTERM to.
C8_Witness ==
    \E t \in Thr : \E p \in 1..Len(procs) :
      /\ res[t].via = "exited"
      /\ procs[p].sig = <<"TERM">> /\ procs[p].st = "exited"

\* The worker last launched on config object c has been sent a signal by
\* killTikaServer, and no worker was launched on c since.
Terminated(c) ==
    \E p \in 1..Len(procs) :
      /\ procs[p].cfg = c /\ procs[p].sig # <<>>
      /\ \A q \in 1..Len(procs) : procs[q].cfg = c => q <= p

\* C9: a call of killTikaServer that finds no worker tracked, or that follows
\* a killTikaServer with no launch in between, returns nil and changes
\* nothing: no signal, no process touched, the config as it was.
C9_TerminateNoop ==
    [][\A t \in Thr :
         (/\ pc[t] = "k_lock" /\ pc'[t] # "k_lock"
          /\ C(t).tika = 0 \/ Terminated(cfgOf[t]))
            => /\ pc'[t] = "idle"
               /\ res'[t].r = "ok"
               /\ cfg' = cfg /\ chans' = chans /\ procs' = procs
               /\ tk' = tk /\ kw' = kw]_vars

\* C9 witness: killTikaServer returned by `return nil` on a config whose
\* worker an earlier killTikaServer had terminated.
C9_Witness ==
    \E t \in Thr :
      /\ res[t].via = "untracked"
      /\ Terminated(cfgOf[t])

\* C10: whatever document analyze is given, and however many bytes of it the
\* /meta request had consumed when its response arrived, the body of the
\* /tika request is exactly the complete document, each byte once and in
\* order.
C10_BufferFidelity == textSent => textBody = input

\* C11: when the /meta or the /tika endpoint answers with a status >= 400,
\* analyze stops there and returns a non-nil error.
C11_StatusIsError ==
    (apc = "done" /\ seen \cap {"meta_status", "text_status"} # {})
        => ares = "err"

TransportFailures == {"meta_send", "meta_read", "text_send", "text_read"}

\* C12: when sending a request, reading the /meta response body or reading
\* the /tika response body fails, analyze returns a non-nil error; and a call
\* of analyze requests each endpoint at most once.
C12_TransportFailureIsError ==
    /\ (apc = "done" /\ seen \cap TransportFailures # {}) => ares = "err"
    /\ nreq.meta <= 1 /\ nreq.text <= 1

\* C13: an ingest whose worker start failed, whose extraction failed in
\* either phase or whose upsert failed is answered 500; an ingest is answered
\* 201 only when both extraction phases and the upsert succeeded; and after a
\* worker-start or extraction failure the handler has not touched the index.
C13_IngestStatus ==
    \A t \in Req :
        /\ resp[t] = 201 =>
              ~hrec[t].failed /\ hrec[t].texted /\ hrec[t].stored
        /\ (hpc[t] = "done" /\ (res[t].r = "err" \/ hrec[t].failed)) =>
              resp[t] = 500 /\ ~hrec[t].stored

\* The worker processes launched by request goroutine t.
LaunchedBy(t) == {p \in DOMAIN procs : procs[p].by = t}

\* C14: an ingest request without an id is answered 400, and it has launched
\* no worker process, sent no extraction request and not touched the index.
C14_MissingIdNoEffect ==
    \A t \in Req :
        (hpc[t] = "done" /\ rq[t].kind = "raw" /\ rq[t].id = "") =>
            /\ resp[t] = 400
            /\ LaunchedBy(t) = {}
            /\ hrec[t] = NoRec

\* The worker request goroutine t's ensureTikaServer left tracked.
WorkerOf(t) == C(t).tika

\* C17: an ingest that failed in extraction or in the upsert has not
\* signalled its worker, and while that worker runs the next request's
\* ensureTikaServer returns nil without launching a worker.
C17_FailedIngestKeepsWorker ==
    \A t \in Req :
        (/\ resp[t] = 500 /\ res[t].r = "ok"
         /\ WorkerOf(t) # 0 /\ procs[WorkerOf(t)].st = "running")
        => /\ procs[WorkerOf(t)].sig = <<>>
           /\ \A u \in Req :
                (u = t + 1 /\ hpc[u] # "none" /\ pc[u] = "idle")
                    => res[u].r = "ok" /\ res[u].via = "default"

\* C15: after any sequence of stores the index holds at most one document per
\* id, the one of the most recent (successful) store for that id; a store that
\* repeats what the index holds under the id leaves the index unchanged; and
\* a search returns no id twice.
C15_UpsertById ==
    /\ [](/\ \A e1, e2 \in index : e1.doc.ID = e2.doc.ID => e1 = e2
          /\ \A e \in index : e.doc.ID \in Stored
          /\ \A k \in Stored :
                {e.doc : e \in {x \in index : x.doc.ID = k}} = {last[k]}
          /\ \A e1, e2 \in hits : e1.key = e2.key => e1 = e2)
    /\ [][(iop'.kind = "store" /\ iop'.ok /\ iop'.had = "same")
            => index' = index]_vars

\* A store has just replaced the document of an id by another one, in an
\* index that holds several ids.
C15_Witness ==
    /\ iop.kind = "store" /\ iop.ok /\ iop.had = "other"
    /\ Cardinality(index) >= 2

\* C16: a search for a word returns every id whose indexed document holds
\* that word in its text.
C16_SearchFindsIngested ==
    iop.kind \in Tokens => \A e \in Matching(index, iop.kind) : e \in hits

\* The worker processes that run and have been sent no signal.
Unstopped == {p \in DOMAIN procs : procs[p].st = "running" /\ procs[p].sig = <<>>}

\* C18: when requests cease (a run serves finitely many), the program
\* eventually stops its worker: from every state of the serving program a
\* state follows in which every worker it launched has exited or has been
\* sent SIGTERM.
C18_IdleStop == [](phase = "serving" => <>(Unstopped = {}))

\* C19: readMeta skips a line exactly when the line holds no "," separator
\* (quote, comma, quote): every line "key","value", also with an empty key or
\* an empty value, gives a key/value pair.
C19_SkipExactlyNoSeparator ==
    mlast.out \in {"skip", "pair"} =>
        (mlast.out = "skip" <=> Index(mlast.line, <<Q, Comma, Q>>) < 0)

\* C20: a Creation-Date line whose value is no date leaves Created unset and
\* does not end the parse; readMeta ends only when the scan ends, and its
\* error is non-nil only when the scan failed.
C20_NoContentError ==
    /\ (mlast.out = "pair" /\ mlast.key = <<"Creation-Date">>
            /\ mlast.value # <<Date>>)
        => mmeta.Created = "zero"
    /\ mlast.out \in {"skip", "pair"} => ~mdone /\ merr = "nil"
    /\ mdone => (merr = "err" <=> mlast.out = "ioerr")

\* A Creation-Date line with a value that is no date has been scanned as the
\* second line.
C20_Witness ==
    /\ mn = 2
    /\ mlast.out = "pair" /\ mlast.key = <<"Creation-Date">>
    /\ mlast.value = <<"v">>

\* The keys readMeta gives a field of their own.
Recognized == {<<"Content-Type">>, <<"Author">>, <<"title">>, <<"Creation-Date">>}

\* The line "key","value".
KeyValueLine(k, v) == <<Q>> \o k \o <<Q, Comma, Q>> \o v \o <<Q>>

\* C21: for a key other than Content-Type, Author, title and Creation-Date,
\* data holds the value of the last line "key","value" carrying it, under one
\* entry per key; the four recognized keys never appear in data.
C21_DataLastWins ==
    /\ \A p \in mmeta.Data : p[1] \notin Recognized
    /\ \A p1, p2 \in mmeta.Data : p1[1] = p2[1] => p1 = p2
    /\ \A k \in KeyFields \ Recognized, v \in {<<>>, <<Date>>, <<"v">>} :
          mlast.line = KeyValueLine(k, v) => <<k, v>> \in mmeta.Data

\* C22: a multipart ingest with the form field id and an uploaded file is not
\* turned down for its id, the bytes passed to analyze are those of the
\* uploaded file, and the id it is stored under is the form field.
C22_MultipartIngest ==
    \A t \in Req :
        (rq[t].kind = "multipart" /\ rq[t].fid # "") =>
            /\ resp[t] # 400
            /\ owner = t => input = UploadedFile
            /\ hrec[t].stored => rq[t].id = rq[t].fid

\* C23: within one ingest the steps come in the order ensureRunning, metadata
\* request, drain, text request, index upsert: the analysis begins only after
\* ensureRunning returned without error, the text request is sent only after
\* the metadata request was sent and the stream was drained to its end, and a
\* document is stored only after the text request was sent and no step of the
\* analysis failed.
C23_IngestOrder ==
    /\ \A t \in Req : owner = t => res[t].r = "ok"
    /\ textSent => (nreq.meta >= 1 /\ rpos = Len(input))
    /\ \A t \in Req : hrec[t].stored => (hrec[t].texted /\ ~hrec[t].failed)

\* C24: the supervisor never panics: no call of ensureTikaServer returns by
\* the panic of closing a closed channel, and the program is never ended by
\* the panic of a close or of a watcher's send on a closed channel.
C24_NoPanic ==
    /\ phase # "crashed"
    /\ \A t \in Thr : res[t].r # "panic"

\* C25: at any time at most one worker process launched by the supervisor is
\* alive (started and not yet exited).
C25_OneWorkerAlive ==
    Cardinality({p \in DOMAIN procs : procs[p].st = "running"}) <= 1

====
